---- MODULE Spec2Model ----
(***************************************************************************)
(* Sales lifecycle service: CreateSale, UpdateSaleStatus and SearchSale    *)
(* over the in-memory LocalStorage, with the user-existence check done by  *)
(* an HTTP lookup.  Requests run as concurrent threads (one per inbound    *)
(* request); LocalStorage holds *Sale pointers and takes no lock, so the   *)
(* field writes of UpdateSaleStatus act on the stored object one by one.   *)
(* Each field read or write is one step (a word-sized access); the string  *)
(* header of Status is treated as one word.                                *)
(***************************************************************************)
EXTENDS Integers, Sequences, FiniteSets, TLC

\* ----------------------------------------------------------------- bounds
MaxSales == 2
MaxClock == 2

Procs    == {"r1", "r2"}
UserIDs  == {"u1", "u2"}
Amounts  == {-1, 0, 1, 2}
EmptyID  == 0
SaleIDs  == 1..MaxSales
IDInputs == {EmptyID} \cup SaleIDs

Statuses     == <<"pending", "approved", "rejected">>
StatusInputs == {"pending", "approved", "rejected", "", "invalid"}

\* -------------------------------------------------------------- constants
StatusOK                  == 200
StatusCreated             == 201
StatusBadRequest          == 400
StatusNotFound            == 404
StatusInternalServerError == 500

\* The outcomes of http.Get: the request failed, or a response with a code.
HttpOutcomes ==
  {[failed |-> TRUE, code |-> 0]} \cup
  {[failed |-> FALSE, code |-> c] : c \in {StatusOK, StatusNotFound, StatusInternalServerError}}

\* ------------------------------------------------------------------ errors
NoErr                == "nil"
ErrNotFound          == "sale not found"
ErrEmptyID           == "empty sale ID"
ErrInvalidTransition == "invalid status transition"
ErrInvalidStatus     == "invalid status value"
ErrAmount            == "amount must be greater than zero"
ErrValidatingUser    == "error validating user: "
ErrSaveSale          == "failed to save sale: "
ErrRequest           == "error making request to user API"
ErrUnexpected        == "user API returned unexpected status"
ErrUserNotFound(userID) == "user with ID '" \o userID \o "' not found"

\* ------------------------------------------------------------------- state
VARIABLES
  m,        \* LocalStorage.m: sale id -> the Sale object the entry points to
  now,      \* the clock time.Now() reads
  pc,       \* per request thread: where it is in UpdateSaleStatus
  sale,     \* per thread: the *Sale held by UpdateSaleStatus (its id)
  arg,      \* per thread: newStatus of the UpdateSaleStatus in progress
  reg,      \* per thread: the value loaded by sale.Version++
  tm,       \* per thread: the value time.Now() returned to UpdateSaleStatus
  last,     \* the response returned by the step that led here
  raced,    \* per sale id: two UpdateSaleStatus calls on it have overlapped
  okUpdates,\* per sale id: UpdateSaleStatus calls that returned success
  before    \* per thread: the sale as the Read of its UpdateSaleStatus found it

vars == <<m, now, pc, sale, arg, reg, tm, last, raced, okUpdates, before>>

NoSale == [id |-> EmptyID]
NoMeta == [quantity |-> 0, approved |-> 0, rejected |-> 0, pending |-> 0,
           totalAmount |-> 0]

\* The keys of the map: an entry is a key with a Sale object behind it.
Stored(mm) == {i \in IDInputs : mm[i] # NoSale}

\* ------------------------------------------------------------ LocalStorage
\* SetErr with the test of the ID inverted.
SetErrInverted(s) == IF s.id # EmptyID THEN ErrEmptyID ELSE NoErr

\* Set: the error returned, and the map afterwards.
SetErr(s) == IF s.id = EmptyID THEN ErrEmptyID ELSE NoErr

\* Set that makes every entry of the map point to the sale.
SetShared(mm, s) ==
  IF s.id = EmptyID THEN mm
  ELSE [i \in IDInputs |-> IF i = s.id \/ mm[i] # NoSale THEN s ELSE NoSale]

\* Set without the test of the ID.
SetUnchecked(mm, s) == [mm EXCEPT ![s.id] = s]

Set(mm, s) == IF s.id = EmptyID THEN mm ELSE [mm EXCEPT ![s.id] = s]

\* Read that does not look at the "comma ok".
ReadAlwaysOk(mm, id) == [err |-> NoErr, sale |-> id]

\* Read: ok is the map's "comma ok".
Read(mm, id) ==
  IF id \in Stored(mm) THEN [err |-> NoErr, sale |-> id]
  ELSE [err |-> ErrNotFound, sale |-> EmptyID]

\* The orders in which the map iteration may give the keys.
Perms(S) ==
  {f \in [1..Cardinality(S) -> S] : \A i, j \in 1..Cardinality(S) : f[i] = f[j] => i = j}

\* GetAll appending the address of one loop variable: every entry is the
\* sale iterated last.
GetAllAliased(mm) ==
  {[i \in 1..Cardinality(Stored(mm)) |-> mm[f[Cardinality(Stored(mm))]]] :
     f \in Perms(Stored(mm))}

\* GetAll: the stored objects, in the order the map iteration gives.
GetAll(mm) == {[i \in 1..Cardinality(Stored(mm)) |-> mm[f[i]]] : f \in Perms(Stored(mm))}

\* ----------------------------------------------------------------- service
\* validateUser taking every status other than 200 as "not found".
validateUserLenient(http) ==
  IF http.failed THEN [exists |-> FALSE, err |-> ErrRequest]
  ELSE IF http.code = StatusOK THEN [exists |-> TRUE, err |-> NoErr]
  ELSE [exists |-> FALSE, err |-> NoErr]

\* validateUser reporting 404 as an error like any unexpected status.
validateUserStrict(http) ==
  IF http.failed THEN [exists |-> FALSE, err |-> ErrRequest]
  ELSE IF http.code = StatusOK THEN [exists |-> TRUE, err |-> NoErr]
  ELSE [exists |-> FALSE, err |-> ErrUnexpected]

validateUser(http) ==
  IF http.failed THEN [exists |-> FALSE, err |-> ErrRequest]
  ELSE IF http.code = StatusOK THEN [exists |-> TRUE, err |-> NoErr]
  ELSE IF http.code = StatusNotFound THEN [exists |-> FALSE, err |-> NoErr]
  ELSE [exists |-> FALSE, err |-> ErrUnexpected]

getRandomStatus(randomIndex) == Statuses[randomIndex + 1]

\* No lookup was made / validateUser was not called.
NoHttp  == [failed |-> FALSE, code |-> 0]
NoCheck == [exists |-> FALSE, err |-> NoErr]

\* CreateSaleCheck that lets amount 0 through.
CreateSaleCheckNegative(userID, amount, http) ==
  IF amount < 0 THEN [err |-> ErrAmount, http |-> NoHttp, check |-> NoCheck]
  ELSE LET v == validateUser(http)
       IN  [err   |-> IF v.err # NoErr THEN ErrValidatingUser \o v.err
                      ELSE IF ~v.exists THEN ErrUserNotFound(userID)
                      ELSE NoErr,
            http  |-> http,
            check |-> v]

\* CreateSaleCheck that looks at validateUser's error only, not at its boolean.
CreateSaleCheckIgnoresExists(userID, amount, http) ==
  IF amount <= 0 THEN [err |-> ErrAmount, http |-> NoHttp, check |-> NoCheck]
  ELSE LET v == validateUser(http)
       IN  [err   |-> IF v.err # NoErr THEN ErrValidatingUser \o v.err ELSE NoErr,
            http  |-> http,
            check |-> v]

\* CreateSale up to the point where it builds the sale: the error returned
\* (NoErr: it goes on), the lookup made and what validateUser answered.
CreateSaleCheck(userID, amount, http) ==
  IF amount <= 0 THEN [err |-> ErrAmount, http |-> NoHttp, check |-> NoCheck]
  ELSE LET v == validateUser(http)
       IN  [err   |-> IF v.err # NoErr THEN ErrValidatingUser \o v.err
                      ELSE IF ~v.exists THEN ErrUserNotFound(userID)
                      ELSE NoErr,
            http  |-> http,
            check |-> v]

\* NewSale with the two clock readings exchanged.
NewSaleSwapped(id, userID, amount, status, t1, t2) ==
  [id |-> id, userId |-> userID, amount |-> amount, status |-> status,
   createdAt |-> t2, updatedAt |-> t1, version |-> 1]

NewSale(id, userID, amount, status, t1, t2) ==
  [id |-> id, userId |-> userID, amount |-> amount, status |-> status,
   createdAt |-> t1, updatedAt |-> t2, version |-> 1]

\* UpdateSaleCheck with the transition check before the newStatus check.
UpdateSaleCheckSwapped(mm, saleID, newStatus) ==
  IF Read(mm, saleID).err # NoErr THEN ErrNotFound
  ELSE IF mm[Read(mm, saleID).sale].status # "pending" THEN ErrInvalidTransition
  ELSE IF newStatus # "approved" /\ newStatus # "rejected" THEN ErrInvalidStatus
  ELSE NoErr

\* UpdateSaleCheck that refuses a transition only to the status the sale has.
UpdateSaleCheckSameStatus(mm, saleID, newStatus) ==
  IF Read(mm, saleID).err # NoErr THEN ErrNotFound
  ELSE IF newStatus # "approved" /\ newStatus # "rejected" THEN ErrInvalidStatus
  ELSE IF mm[Read(mm, saleID).sale].status = newStatus THEN ErrInvalidTransition
  ELSE NoErr

\* UpdateSaleCheck without the transition check.
UpdateSaleCheckAnyState(mm, saleID, newStatus) ==
  IF Read(mm, saleID).err # NoErr THEN ErrNotFound
  ELSE IF newStatus # "approved" /\ newStatus # "rejected" THEN ErrInvalidStatus
  ELSE NoErr

\* UpdateSaleCheck without the newStatus check.
UpdateSaleCheckAnyStatus(mm, saleID, newStatus) ==
  IF Read(mm, saleID).err # NoErr THEN ErrNotFound
  ELSE IF mm[Read(mm, saleID).sale].status # "pending" THEN ErrInvalidTransition
  ELSE NoErr

\* The error UpdateSaleStatus returns before it writes (NoErr: it goes on).
UpdateSaleCheck(mm, saleID, newStatus) ==
  IF Read(mm, saleID).err # NoErr THEN ErrNotFound
  ELSE IF newStatus # "approved" /\ newStatus # "rejected" THEN ErrInvalidStatus
  ELSE IF mm[Read(mm, saleID).sale].status # "pending" THEN ErrInvalidTransition
  ELSE NoErr

\* Increment that adds 2.
IncrementByTwo(version) == version + 2

\* Increment that writes back the version it read.
IncrementLost(version) == version

\* sale.Version++
Increment(version) == version + 1

\* SearchSaleCheck that validates the user before it looks at the filter.
SearchSaleCheckUserFirst(userID, status, http) ==
  LET v == validateUser(http)
  IN  [err   |-> IF v.err # NoErr THEN ErrValidatingUser \o v.err
                 ELSE IF ~v.exists THEN ErrUserNotFound(userID)
                 ELSE IF status \notin {"", "pending", "approved", "rejected"}
                      THEN ErrInvalidStatus
                 ELSE NoErr,
       http  |-> http,
       check |-> v]

\* SearchSale up to the scan: the error returned (NoErr: it goes on), the
\* lookup made and what validateUser answered.
SearchSaleCheck(userID, status, http) ==
  IF status \notin {"", "pending", "approved", "rejected"}
  THEN [err |-> ErrInvalidStatus, http |-> NoHttp, check |-> NoCheck]
  ELSE LET v == validateUser(http)
       IN  [err   |-> IF v.err # NoErr THEN ErrValidatingUser \o v.err
                      ELSE IF ~v.exists THEN ErrUserNotFound(userID)
                      ELSE NoErr,
            http  |-> http,
            check |-> v]

Matches(s, userID, status) ==
  s.userId = userID /\ (status = "" \/ s.status = status)

Filter(all, userID, status) == SelectSeq(all, LAMBDA s : Matches(s, userID, status))

CountStatus(results, status) == Len(SelectSeq(results, LAMBDA s : s.status = status))

RECURSIVE SumAmount(_)
SumAmount(results) ==
  IF results = <<>> THEN 0 ELSE Head(results).amount + SumAmount(Tail(results))

Metadata(results) ==
  [quantity    |-> Len(results),
   approved    |-> CountStatus(results, "approved"),
   rejected    |-> CountStatus(results, "rejected"),
   pending     |-> CountStatus(results, "pending"),
   totalAmount |-> SumAmount(results)]

\* Search aggregating over all the sales of the user, not over the matched.
SearchAggregatesUser(all, userID, status) ==
  [results |-> Filter(all, userID, status),
   meta    |-> Metadata(Filter(all, userID, ""))]

\* The scan of SearchSale: the matched list and its aggregation.
Search(all, userID, status) ==
  [results |-> Filter(all, userID, status),
   meta    |-> Metadata(Filter(all, userID, status))]

\* ----------------------------------------------------------------- handler
\* handleCreateSale: the HTTP status it answers, from the error of CreateSale.
handleCreateSale(err) ==
  IF err # NoErr
  THEN IF err = "amount must be greater than zero" \/ err = "user not found"
       THEN StatusBadRequest
       ELSE StatusInternalServerError
  ELSE StatusCreated

\* ---------------------------------------------------------------- responses
\* A call and what it returned: op and its arguments; err and sale (the *Sale
\* returned, by id) or results and meta; http and check are the lookup the
\* call made and validateUser's answer to it; code is the HTTP status the
\* handler of the call answers (0: the handler is not modelled).
Resp(op, err, s, userID, amount, id, status, chk, found) ==
  [op |-> op, err |-> err, sale |-> s, userId |-> userID, amount |-> amount,
   id |-> id, status |-> status, http |-> chk.http, check |-> chk.check,
   results |-> found.results, meta |-> found.meta,
   code |-> IF op = "CreateSale" THEN handleCreateSale(err) ELSE 0]

Unchecked == [http |-> NoHttp, check |-> NoCheck]
Nothing   == [results |-> <<>>, meta |-> NoMeta]

NoResp == Resp("none", NoErr, EmptyID, "", 0, EmptyID, "", Unchecked, Nothing)

CreateResp(err, s, userID, amount, chk) ==
  Resp("CreateSale", err, s, userID, amount, EmptyID, "", chk, Nothing)

UpdateResp(err, s, id, status) ==
  Resp("UpdateSaleStatus", err, s, "", 0, id, status, Unchecked, Nothing)

SearchResp(err, userID, status, chk, found) ==
  Resp("SearchSale", err, EmptyID, userID, 0, EmptyID, status, chk, found)

\* ------------------------------------------------------------------ actions
Init ==
  /\ m = [i \in IDInputs |-> NoSale]
  /\ now = 0
  /\ pc = [p \in Procs |-> "idle"]
  /\ sale = [p \in Procs |-> EmptyID]
  /\ arg = [p \in Procs |-> ""]
  /\ reg = [p \in Procs |-> 0]
  /\ tm = [p \in Procs |-> 0]
  /\ last = NoResp
  /\ raced = [i \in SaleIDs |-> FALSE]
  /\ okUpdates = [i \in SaleIDs |-> 0]
  /\ before = [p \in Procs |-> NoSale]

\* The clock advances.
Tick ==
  /\ last = NoResp
  /\ now < MaxClock
  /\ now' = now + 1
  /\ UNCHANGED <<m, pc, sale, arg, reg, tm, last, raced, okUpdates, before>>

\* The caller takes the response.
Return ==
  /\ last # NoResp
  /\ last' = NoResp
  /\ UNCHANGED <<m, now, pc, sale, arg, reg, tm, raced, okUpdates, before>>

\* An identifier generator that gives again the identifier it gave last.
NewIDReused(mm) == IF Stored(mm) = {} THEN Cardinality(Stored(mm)) + 1 ELSE Cardinality(Stored(mm))

\* uuid.NewString(): an identifier no sale has had.
NewID(mm) == Cardinality(Stored(mm)) + 1

\* CreateSale fails before building the sale.
CreateSaleFail(p, userID, amount, http) ==
  /\ pc[p] = "idle"
  /\ last = NoResp
  /\ CreateSaleCheck(userID, amount, http).err # NoErr
  /\ last' = CreateResp(CreateSaleCheck(userID, amount, http).err, EmptyID, userID, amount,
                        CreateSaleCheck(userID, amount, http))
  /\ UNCHANGED <<m, now, pc, sale, arg, reg, tm, raced, okUpdates, before>>

\* CreateSale builds the sale (the clock is read twice, at now and at t2) and
\* stores it.
CreateSaleStore(p, userID, amount, http, randomIndex, t2) ==
  /\ pc[p] = "idle"
  /\ last = NoResp
  /\ CreateSaleCheck(userID, amount, http).err = NoErr
  /\ Cardinality(Stored(m)) < MaxSales
  /\ LET s == NewSale(NewID(m), userID, amount, getRandomStatus(randomIndex), now, t2)
     IN  /\ m' = Set(m, s)
         /\ last' = IF SetErr(s) # NoErr
                    THEN CreateResp(ErrSaveSale \o SetErr(s), EmptyID, userID, amount,
                                    CreateSaleCheck(userID, amount, http))
                    ELSE CreateResp(NoErr, s.id, userID, amount,
                                    CreateSaleCheck(userID, amount, http))
  /\ now' = t2
  /\ UNCHANGED <<pc, sale, arg, reg, tm, raced, okUpdates, before>>

\* UpdateSaleStatus, up to its last check: Read, the newStatus check and the
\* read of sale.Status.
UpdateSaleFail(p, saleID, newStatus) ==
  /\ pc[p] = "idle"
  /\ last = NoResp
  /\ UpdateSaleCheck(m, saleID, newStatus) # NoErr
  /\ last' = UpdateResp(UpdateSaleCheck(m, saleID, newStatus), EmptyID, saleID, newStatus)
  /\ UNCHANGED <<m, now, pc, sale, arg, reg, tm, raced, okUpdates, before>>

UpdateSaleBegin(p, saleID, newStatus) ==
  /\ pc[p] = "idle"
  /\ last = NoResp
  /\ UpdateSaleCheck(m, saleID, newStatus) = NoErr
  /\ pc' = [pc EXCEPT ![p] = "status"]
  /\ sale' = [sale EXCEPT ![p] = Read(m, saleID).sale]
  /\ arg' = [arg EXCEPT ![p] = newStatus]
  /\ raced' = [raced EXCEPT ![saleID] =
                 @ \/ \E q \in Procs \ {p} : pc[q] # "idle" /\ sale[q] = saleID]
  /\ before' = [before EXCEPT ![p] = m[saleID]]
  /\ UNCHANGED <<m, now, reg, tm, last, okUpdates>>

\* sale.Status = newStatus
WriteStatus(p) ==
  /\ pc[p] = "status"
  /\ last = NoResp
  /\ m' = [m EXCEPT ![sale[p]].status = arg[p]]
  /\ pc' = [pc EXCEPT ![p] = "now"]
  /\ UNCHANGED <<now, sale, arg, reg, tm, last, raced, okUpdates, before>>

\* sale.UpdatedAt = time.Now() : the clock is read ...
ReadClock(p) ==
  /\ pc[p] = "now"
  /\ last = NoResp
  /\ tm' = [tm EXCEPT ![p] = now]
  /\ pc' = [pc EXCEPT ![p] = "updatedAt"]
  /\ UNCHANGED <<m, now, sale, arg, reg, last, raced, okUpdates, before>>

\* ... and the field is written.
WriteUpdatedAt(p) ==
  /\ pc[p] = "updatedAt"
  /\ last = NoResp
  /\ m' = [m EXCEPT ![sale[p]].updatedAt = tm[p]]
  /\ pc' = [pc EXCEPT ![p] = "load"]
  /\ tm' = [tm EXCEPT ![p] = 0]
  /\ UNCHANGED <<now, sale, arg, reg, last, raced, okUpdates, before>>

\* sale.Version++ : the load ...
LoadVersion(p) ==
  /\ pc[p] = "load"
  /\ last = NoResp
  /\ reg' = [reg EXCEPT ![p] = m[sale[p]].version]
  /\ pc' = [pc EXCEPT ![p] = "store"]
  /\ UNCHANGED <<m, now, sale, arg, tm, last, raced, okUpdates, before>>

\* ... and the store.
StoreVersion(p) ==
  /\ pc[p] = "store"
  /\ last = NoResp
  /\ m' = [m EXCEPT ![sale[p]].version = Increment(reg[p])]
  /\ pc' = [pc EXCEPT ![p] = "set"]
  /\ reg' = [reg EXCEPT ![p] = 0]
  /\ UNCHANGED <<now, sale, arg, tm, last, raced, okUpdates, before>>

\* s.storage.Set(sale) and the return.
UpdateSaleSet(p) ==
  /\ pc[p] = "set"
  /\ last = NoResp
  /\ m' = Set(m, m[sale[p]])
  /\ last' = IF SetErr(m[sale[p]]) # NoErr
             THEN UpdateResp(SetErr(m[sale[p]]), EmptyID, sale[p], arg[p])
             ELSE UpdateResp(NoErr, sale[p], sale[p], arg[p])
  /\ okUpdates' = [okUpdates EXCEPT ![sale[p]] =
                     IF SetErr(m[sale[p]]) = NoErr THEN @ + 1 ELSE @]
  /\ pc' = [pc EXCEPT ![p] = "idle"]
  /\ sale' = [sale EXCEPT ![p] = EmptyID]
  /\ arg' = [arg EXCEPT ![p] = ""]
  /\ before' = [before EXCEPT ![p] = NoSale]
  /\ UNCHANGED <<now, reg, tm, raced>>

\* SearchSale fails before the scan.
SearchSaleFail(p, userID, status, http) ==
  /\ pc[p] = "idle"
  /\ last = NoResp
  /\ SearchSaleCheck(userID, status, http).err # NoErr
  /\ last' = SearchResp(SearchSaleCheck(userID, status, http).err, userID, status,
                        SearchSaleCheck(userID, status, http), Nothing)
  /\ UNCHANGED <<m, now, pc, sale, arg, reg, tm, raced, okUpdates, before>>

\* SearchSale scans the storage and aggregates.
SearchSaleScan(p, userID, status, http) ==
  /\ pc[p] = "idle"
  /\ last = NoResp
  /\ SearchSaleCheck(userID, status, http).err = NoErr
  /\ \E all \in GetAll(m) :
       last' = SearchResp(NoErr, userID, status, SearchSaleCheck(userID, status, http),
                          Search(all, userID, status))
  /\ UNCHANGED <<m, now, pc, sale, arg, reg, tm, raced, okUpdates, before>>

FoundUser == [failed |-> FALSE, code |-> StatusOK]

\* The clock advances while the threads run, on two sales.
ClockNext ==
  \/ Tick
  \/ Return
  \/ \E p \in Procs, randomIndex \in 0..2,
        t2 \in now..(IF now < MaxClock THEN now + 1 ELSE now) :
       Cardinality(Stored(m)) < 2 /\ CreateSaleStore(p, "u1", 1, FoundUser, randomIndex, t2)
  \/ \E p \in Procs, saleID \in IDInputs, newStatus \in {"approved", "rejected"} :
       UpdateSaleFail(p, saleID, newStatus)
  \/ \E p \in Procs, saleID \in IDInputs, newStatus \in {"approved", "rejected"} :
       UpdateSaleBegin(p, saleID, newStatus)
  \/ \E p \in Procs : WriteStatus(p)
  \/ \E p \in Procs : ReadClock(p)
  \/ \E p \in Procs : WriteUpdatedAt(p)
  \/ \E p \in Procs : LoadVersion(p)
  \/ \E p \in Procs : StoreVersion(p)
  \/ \E p \in Procs : UpdateSaleSet(p)

ClockSpec == Init /\ [][ClockNext]_vars

\* Concurrent request threads on the sale lifecycle.  The clock stands still
\* (it advances in ClockNext), there is one user and one positive amount.
RaceUsers   == {"u1"}
RaceAmounts == {0, 1}

Next ==
  \/ Return
  \/ \E p \in Procs, userID \in RaceUsers, amount \in RaceAmounts, http \in HttpOutcomes :
       CreateSaleFail(p, userID, amount, http)
  \/ \E p \in Procs, userID \in RaceUsers, amount \in RaceAmounts, randomIndex \in 0..2 :
       CreateSaleStore(p, userID, amount, FoundUser, randomIndex, now)
  \/ \E p \in Procs, saleID \in IDInputs, newStatus \in StatusInputs :
       UpdateSaleFail(p, saleID, newStatus)
  \/ \E p \in Procs, saleID \in IDInputs, newStatus \in StatusInputs :
       UpdateSaleBegin(p, saleID, newStatus)
  \/ \E p \in Procs : WriteStatus(p)
  \/ \E p \in Procs : ReadClock(p)
  \/ \E p \in Procs : WriteUpdatedAt(p)
  \/ \E p \in Procs : LoadVersion(p)
  \/ \E p \in Procs : StoreVersion(p)
  \/ \E p \in Procs : UpdateSaleSet(p)
  \/ \E p \in Procs, userID \in RaceUsers, status \in {"", "invalid"}, http \in HttpOutcomes :
       SearchSaleFail(p, userID, status, http)
  \/ \E p \in Procs, userID \in RaceUsers, status \in {"", "pending"} :
       SearchSaleScan(p, userID, status, FoundUser)

Spec == Init /\ [][Next]_vars

\* One request at a time: creation and search over every input.  Sales of
\* every status arise from getRandomStatus.
QueryNext ==
  \/ Return
  \/ \E p \in Procs, userID \in UserIDs, amount \in Amounts, http \in HttpOutcomes :
       CreateSaleFail(p, userID, amount, http)
  \/ \E p \in Procs, userID \in UserIDs, amount \in Amounts, http \in HttpOutcomes,
        randomIndex \in 0..2 :
       CreateSaleStore(p, userID, amount, http, randomIndex, now)
  \/ \E p \in Procs, userID \in UserIDs, status \in StatusInputs, http \in HttpOutcomes :
       SearchSaleFail(p, userID, status, http)
  \/ \E p \in Procs, userID \in UserIDs, status \in StatusInputs, http \in HttpOutcomes :
       SearchSaleScan(p, userID, status, http)

QuerySpec == Init /\ [][QueryNext]_vars

\* -------------------------------------------------- the storage on its own
\* The sales handed to Set by a caller of the storage: any ID, the empty one
\* included.
SampleSales ==
  {NewSale(id, userID, 1, status, 0, 0) :
     id \in IDInputs, userID \in UserIDs, status \in {"pending", "approved"}}

StorageResp(op, err, s, id, all) ==
  Resp(op, err, s, "", 0, id, "", Unchecked, [results |-> all, meta |-> NoMeta])

\* Set returns ErrEmptyID before it touches the map.
StorageSetFail(p, s) ==
  /\ pc[p] = "idle"
  /\ last = NoResp
  /\ SetErr(s) # NoErr
  /\ m' = Set(m, s)
  /\ last' = StorageResp("Set", SetErr(s), EmptyID, s.id, <<s>>)
  /\ UNCHANGED <<now, pc, sale, arg, reg, tm, raced, okUpdates, before>>

\* Set starts the map assignment l.m[sale.ID] = sale ...
BeginSet(p, id) ==
  /\ pc[p] = "idle"
  /\ last = NoResp
  /\ id # EmptyID
  /\ pc' = [pc EXCEPT ![p] = "Set"]
  /\ sale' = [sale EXCEPT ![p] = id]
  /\ UNCHANGED <<m, now, arg, reg, tm, last, raced, okUpdates, before>>

\* ... and completes it: s is the sale the caller passed.
EndSet(p, s) ==
  /\ pc[p] = "Set"
  /\ last = NoResp
  /\ s.id = sale[p]
  /\ m' = Set(m, s)
  /\ last' = StorageResp("Set", SetErr(s), EmptyID, s.id, <<s>>)
  /\ pc' = [pc EXCEPT ![p] = "idle"]
  /\ sale' = [sale EXCEPT ![p] = EmptyID]
  /\ UNCHANGED <<now, arg, reg, tm, raced, okUpdates, before>>

\* Read starts the map lookup l.m[id] ...
BeginRead(p, id) ==
  /\ pc[p] = "idle"
  /\ last = NoResp
  /\ pc' = [pc EXCEPT ![p] = "Read"]
  /\ sale' = [sale EXCEPT ![p] = id]
  /\ UNCHANGED <<m, now, arg, reg, tm, last, raced, okUpdates, before>>

\* ... and returns what it found.
EndRead(p) ==
  /\ pc[p] = "Read"
  /\ last = NoResp
  /\ last' = StorageResp("Read", Read(m, sale[p]).err, Read(m, sale[p]).sale, sale[p], <<>>)
  /\ pc' = [pc EXCEPT ![p] = "idle"]
  /\ sale' = [sale EXCEPT ![p] = EmptyID]
  /\ UNCHANGED <<m, now, arg, reg, tm, raced, okUpdates, before>>

\* GetAll starts ranging over the map ...
BeginGetAll(p) ==
  /\ pc[p] = "idle"
  /\ last = NoResp
  /\ pc' = [pc EXCEPT ![p] = "GetAll"]
  /\ UNCHANGED <<m, now, sale, arg, reg, tm, last, raced, okUpdates, before>>

\* ... and returns the list.
EndGetAll(p) ==
  /\ pc[p] = "GetAll"
  /\ last = NoResp
  /\ \E all \in GetAll(m) : last' = StorageResp("GetAll", NoErr, EmptyID, EmptyID, all)
  /\ pc' = [pc EXCEPT ![p] = "idle"]
  /\ UNCHANGED <<m, now, sale, arg, reg, tm, raced, okUpdates, before>>

\* A map assignment runs while another thread is inside the map: the Go
\* runtime may detect it and end the process ("fatal error: concurrent map
\* writes", "concurrent map read and map write"), or not.
MapFault(p) ==
  /\ pc[p] = "Set"
  /\ last = NoResp
  /\ \E q \in Procs \ {p} : pc[q] \in {"Set", "Read", "GetAll"}
  /\ pc' = [q \in Procs |-> "fatal"]
  /\ UNCHANGED <<m, now, sale, arg, reg, tm, last, raced, okUpdates, before>>

\* The storage called by one caller at a time.
StorageNext ==
  \/ Return
  \/ \E p \in Procs, s \in SampleSales : StorageSetFail(p, s)
  \/ \E p \in Procs, id \in IDInputs : (\A q \in Procs : pc[q] = "idle") /\ BeginSet(p, id)
  \/ \E p \in Procs, s \in SampleSales : EndSet(p, s)
  \/ \E p \in Procs, id \in IDInputs : (\A q \in Procs : pc[q] = "idle") /\ BeginRead(p, id)
  \/ \E p \in Procs : EndRead(p)
  \/ \E p \in Procs : (\A q \in Procs : pc[q] = "idle") /\ BeginGetAll(p)
  \/ \E p \in Procs : EndGetAll(p)

StorageSpec == Init /\ [][StorageNext]_vars

\* The storage called by concurrent request threads: LocalStorage takes no
\* lock, so nothing keeps a thread out of the map while another is inside.
MapNext ==
  \/ Return
  \/ \E p \in Procs, s \in SampleSales : StorageSetFail(p, s)
  \/ \E p \in Procs, id \in IDInputs : BeginSet(p, id)
  \/ \E p \in Procs, s \in SampleSales : EndSet(p, s)
  \/ \E p \in Procs, id \in IDInputs : BeginRead(p, id)
  \/ \E p \in Procs : EndRead(p)
  \/ \E p \in Procs : BeginGetAll(p)
  \/ \E p \in Procs : EndGetAll(p)
  \/ \E p \in Procs : MapFault(p)

MapSpec == Init /\ [][MapNext]_vars

\* ------------------------------------------------------------------ claims
Idle(p)     == pc[p] = "idle"
Terminal(s) == s.status \in {"approved", "rejected"}

\* A step in which a call returns: the response of the step is last'.
Returns(op) == last = NoResp /\ last'.op = op

\* The decision table of UpdateSaleStatus(id, newStatus) on a store.
UpdateTable(mm, id, newStatus) ==
  CASE id \notin Stored(mm)                      -> ErrNotFound
    [] id \in Stored(mm) /\ newStatus \notin {"approved", "rejected"}
                                                 -> ErrInvalidStatus
    [] id \in Stored(mm) /\ newStatus \in {"approved", "rejected"}
         /\ mm[id].status # "pending"            -> ErrInvalidTransition
    [] OTHER                                     -> NoErr

\* C1: UpdateSaleStatus(id, newStatus) fails with NotFound when id is not
\* stored, else with InvalidStatusValue when newStatus is not approved or
\* rejected, else with InvalidTransition when the status is not pending; it
\* goes on to write, and returns success, only from pending with approved or
\* rejected.
C1_UpdateDecisionTable ==
  [][/\ (Returns("UpdateSaleStatus") /\ pc' = pc)
          => /\ last'.err = UpdateTable(m, last'.id, last'.status)
             /\ last'.err # NoErr
             /\ last'.sale = EmptyID
     /\ \A p \in Procs :
          (Idle(p) /\ ~Idle(p)')
          => /\ UpdateTable(m, sale'[p], arg'[p]) = NoErr
             /\ m[sale'[p]].status = "pending"
             /\ arg'[p] \in {"approved", "rejected"}
     /\ (Returns("UpdateSaleStatus") /\ last'.err = NoErr)
          => \E p \in Procs : /\ pc[p] = "set" /\ Idle(p)'
                               /\ last'.id = sale[p] /\ last'.status = arg[p]
                               /\ last'.sale = sale[p]
    ]_vars

\* An invalid newStatus was refused on a sale that is not pending: the
\* newStatus check comes before the transition check.
C1_Witness ==
  /\ last.op = "UpdateSaleStatus" /\ last.err = ErrInvalidStatus
  /\ last.status = "pending"
  /\ last.id \in Stored(m) /\ m[last.id].status = "approved"

\* C2 as stated: once the stored status of a sale is approved or rejected it
\* never has a different value afterwards, whatever the interleaving.
C2_TerminalInEveryInterleaving ==
  [][\A id \in Stored(m) : Terminal(m[id]) => m'[id].status = m[id].status]_vars

\* C2, amended: a stored approved or rejected status never returns to
\* pending, and it changes only by the write of an UpdateSaleStatus call that
\* overlapped another call on the same id and had read the sale while it was
\* pending; a call that finds the sale approved or rejected writes nothing.
C2_TerminalUnlessOverlapped ==
  [][\A id \in Stored(m) :
       Terminal(m[id])
       => /\ Terminal(m'[id])
          /\ m'[id].status # m[id].status
               => /\ raced[id]
                  /\ \E p \in Procs : /\ pc[p] = "status" /\ sale[p] = id
                                       /\ m'[id].status = arg[p]
          /\ \A p \in Procs : (Idle(p) /\ ~Idle(p)') => sale'[p] # id
    ]_vars

\* A sale was approved or rejected by one call, no call on it overlapped, and
\* a later call on it was refused with InvalidTransition.
C2_Witness ==
  /\ last.op = "UpdateSaleStatus" /\ last.err = ErrInvalidTransition
  /\ last.id \in Stored(m) /\ ~raced[last.id] /\ okUpdates[last.id] = 1
  /\ Terminal(m[last.id]) /\ last.status # m[last.id].status

\* No UpdateSaleStatus call on id is between its read and its return.
Quiet(id) == \A p \in Procs : Idle(p) \/ sale[p] # id

\* C7 as stated: after any interleaving the stored version of a sale is 1 plus
\* the number of UpdateSaleStatus calls on its id that returned success.
C7_VersionCountsSuccesses ==
  \A id \in Stored(m) : (\A p \in Procs : Idle(p)) => m[id].version = 1 + okUpdates[id]

\* C7, amended: CreateSale stores version 1; the store of sale.Version++
\* writes the version the call loaded plus 1; and as long as no two
\* UpdateSaleStatus calls on the same id have overlapped, the stored version
\* is 1 plus the number of calls on that id that returned success, each
\* successful call raising it by exactly 1.
C7_VersionSerial ==
  /\ [](\A id \in Stored(m) : (Quiet(id) /\ ~raced[id]) => m[id].version = 1 + okUpdates[id])
  /\ [][/\ \A id \in SaleIDs \ Stored(m) : id \in Stored(m') => m'[id].version = 1
        /\ \A p \in Procs :
             (pc[p] = "store" /\ pc'[p] = "set")
             => /\ m'[sale[p]].version = reg[p] + 1
                /\ ~raced[sale[p]] => m'[sale[p]].version = m[sale[p]].version + 1
        /\ \A id \in Stored(m) :
             m'[id].version # m[id].version
             => \E q \in Procs : pc[q] = "store" /\ sale[q] = id
       ]_vars

\* One update of a sale returned success, nothing overlapped, version is 2.
C7_Witness ==
  \E id \in Stored(m) :
    /\ Quiet(id) /\ ~raced[id] /\ okUpdates[id] = 1 /\ m[id].version = 2
    /\ last.op = "UpdateSaleStatus" /\ last.err = NoErr /\ last.sale = id

\* C8: every stored sale has status pending, approved or rejected; a call
\* with another newStatus stores nothing.
C8_StatusEnumerated ==
  /\ \A id \in Stored(m) : m[id].status \in {"pending", "approved", "rejected"}
  /\ \A p \in Procs : ~Idle(p) => arg[p] \in {"approved", "rejected"}

\* A call with an invalid newStatus on a pending sale was refused and the sale
\* is still pending.
C8_Witness ==
  /\ last.op = "UpdateSaleStatus" /\ last.err = ErrInvalidStatus
  /\ last.status = "invalid"
  /\ last.id \in Stored(m) /\ m[last.id].status = "pending"

\* C3: CreateSale with amount <= 0 fails with "amount must be greater than
\* zero" for every userId, returns no sale, leaves the storage as it was and
\* makes no user lookup.
C3_InvalidAmount ==
  [][(Returns("CreateSale") /\ last'.amount <= 0)
       => /\ last'.err = ErrAmount
          /\ last'.sale = EmptyID
          /\ m' = m
          /\ last'.http = NoHttp /\ last'.check = NoCheck
    ]_vars

\* Amount 0 was refused for a user who already owns a stored sale.
C3_Witness ==
  /\ last.op = "CreateSale" /\ last.amount = 0 /\ last.err = ErrAmount
  /\ \E id \in Stored(m) : m[id].userId = last.userId

UserAbsent == [exists |-> FALSE, err |-> NoErr]

\* C4: when the user lookup answers (false, nil), CreateSale with amount > 0
\* and SearchSale with a valid filter fail with "user with ID ... not found",
\* return no sale or result and leave the storage as it was.
C4_UserNotFound ==
  [][(/\ \/ Returns("CreateSale") /\ last'.amount > 0
         \/ Returns("SearchSale") /\ last'.status \in {"", "pending", "approved", "rejected"}
      /\ last'.http = [failed |-> FALSE, code |-> StatusNotFound])
       => /\ last'.check = UserAbsent
          /\ last'.err = ErrUserNotFound(last'.userId)
          /\ last'.sale = EmptyID
          /\ last'.results = <<>> /\ last'.meta = NoMeta
          /\ m' = m
    ]_vars

\* SearchSale failed with user not found while the storage holds a sale of
\* that user.
C4_Witness ==
  /\ last.op = "SearchSale" /\ last.err = ErrUserNotFound(last.userId)
  /\ last.check = UserAbsent
  /\ \E id \in Stored(m) : m[id].userId = last.userId

\* C5: when the lookup fails or answers an unexpected status, CreateSale with
\* amount > 0 fails with "error validating user: ...", which is neither the
\* user-not-found nor the amount error, and stores nothing; it returns user
\* not found only when validateUser answered (false, nil).
C5_ValidationUnavailable ==
  [][(Returns("CreateSale") /\ last'.amount > 0)
       => /\ (last'.http.failed \/ last'.http.code = StatusInternalServerError)
               => /\ last'.check.err # NoErr
                  /\ last'.err = ErrValidatingUser \o last'.check.err
                  /\ last'.err \notin {ErrAmount, ErrUserNotFound(last'.userId), NoErr}
                  /\ last'.sale = EmptyID
                  /\ m' = m
          /\ last'.err = ErrUserNotFound(last'.userId)
               => /\ last'.check = UserAbsent
                  /\ last'.http = [failed |-> FALSE, code |-> StatusNotFound]
    ]_vars

\* CreateSale failed on an unexpected status of the user API.
C5_Witness ==
  /\ last.op = "CreateSale" /\ last.amount > 0
  /\ last.http = [failed |-> FALSE, code |-> StatusInternalServerError]
  /\ last.err = ErrValidatingUser \o ErrUnexpected

\* C6: validateUser answers (true, nil) to 200, (false, nil) to 404 and
\* (false, error) to any other status or a failed request; never true with an
\* error.
C6_ValidateUserOutcomes ==
  (last.op \in {"CreateSale", "SearchSale"} /\ last.http # NoHttp)
  => /\ (~last.http.failed /\ last.http.code = StatusOK)
          => last.check = [exists |-> TRUE, err |-> NoErr]
     /\ (~last.http.failed /\ last.http.code = StatusNotFound)
          => last.check = [exists |-> FALSE, err |-> NoErr]
     /\ (last.http.failed \/ last.http.code \notin {StatusOK, StatusNotFound})
          => (~last.check.exists /\ last.check.err # NoErr)
     /\ ~(last.check.exists /\ last.check.err # NoErr)

\* validateUser answered (false, nil) to a 404.
C6_Witness ==
  /\ last.op = "CreateSale"
  /\ last.http = [failed |-> FALSE, code |-> StatusNotFound]
  /\ last.check = [exists |-> FALSE, err |-> NoErr]

\* The number of entries of a list with a given status, and the sum of the
\* amounts of its first n entries.
NumWithStatus(r, status) == Cardinality({i \in 1..Len(r) : r[i].status = status})

RECURSIVE TotalOf(_, _)
TotalOf(r, n) == IF n = 0 THEN 0 ELSE TotalOf(r, n - 1) + r[n].amount

\* C9: the aggregation of a successful SearchSale is over the returned list:
\* quantity is its length, approved, rejected and pending count its entries
\* of that status and add up to quantity, totalAmount is the sum of its
\* amounts; with a filter the counts of the other statuses are 0.
C9_AggregationOverMatched ==
  (last.op = "SearchSale" /\ last.err = NoErr)
  => /\ last.meta.quantity = Len(last.results)
     /\ last.meta.approved = NumWithStatus(last.results, "approved")
     /\ last.meta.rejected = NumWithStatus(last.results, "rejected")
     /\ last.meta.pending = NumWithStatus(last.results, "pending")
     /\ last.meta.approved + last.meta.rejected + last.meta.pending = last.meta.quantity
     /\ last.meta.totalAmount = TotalOf(last.results, Len(last.results))
     /\ last.status = "pending" => last.meta.approved = 0 /\ last.meta.rejected = 0
     /\ last.status = "approved" => last.meta.pending = 0 /\ last.meta.rejected = 0
     /\ last.status = "rejected" => last.meta.pending = 0 /\ last.meta.approved = 0

\* A filtered search returned one sale of a user who owns another sale, of
\* another status and amount.
C9_Witness ==
  /\ last.op = "SearchSale" /\ last.err = NoErr /\ last.status = "pending"
  /\ Len(last.results) = 1 /\ last.meta.totalAmount = last.results[1].amount
  /\ \E id \in Stored(m) : /\ m[id].userId = last.userId /\ m[id].status = "approved"
                            /\ m[id].amount # last.results[1].amount

\* The stored sales a search for (userID, status) is to return.
Matching(mm, userID, status) ==
  {mm[id] : id \in {i \in Stored(mm) : /\ mm[i].userId = userID
                                        /\ (status = "" \/ mm[i].status = status)}}

\* C10: a successful SearchSale returns exactly the stored sales of the user
\* (of the filter's status, when there is a filter), each once; when none
\* matches, an empty list with an all-zero aggregation.
C10_ExactlyTheMatching ==
  (last.op = "SearchSale" /\ last.err = NoErr)
  => /\ {last.results[i] : i \in 1..Len(last.results)}
          = Matching(m, last.userId, last.status)
     /\ \A i, j \in 1..Len(last.results) :
          last.results[i].id = last.results[j].id => i = j
     /\ Matching(m, last.userId, last.status) = {}
          => last.results = <<>> /\ last.meta = NoMeta

\* A search returned one of two stored sales; the other is of another user.
C10_Witness ==
  /\ last.op = "SearchSale" /\ last.err = NoErr /\ last.status = ""
  /\ Len(last.results) = 1 /\ Cardinality(Stored(m)) = 2
  /\ \E id \in Stored(m) : m[id].userId # last.userId

\* C11: SearchSale with a filter that is not empty, pending, approved or
\* rejected fails with "invalid status value" for every userId; the filter is
\* checked before the user lookup, so no lookup is made and the answer is the
\* same whether the user exists, is absent or the lookup would fail; nothing
\* is returned and the storage is as it was.
C11_InvalidFilter ==
  [][(Returns("SearchSale") /\ last'.status \notin {"", "pending", "approved", "rejected"})
       => /\ last'.err = ErrInvalidStatus
          /\ last'.http = NoHttp /\ last'.check = NoCheck
          /\ last'.results = <<>> /\ last'.meta = NoMeta
          /\ m' = m
    ]_vars

\* An invalid filter was refused for a user who owns no stored sale, while
\* the storage holds a sale of another user.
C11_Witness ==
  /\ last.op = "SearchSale" /\ last.status = "invalid" /\ last.err = ErrInvalidStatus
  /\ Stored(m) # {}
  /\ \A id \in Stored(m) : m[id].userId # last.userId

\* C12: a CreateSale, UpdateSaleStatus or SearchSale call that returns an
\* error has written nothing: the step in which it returns leaves the map and
\* every stored sale as they were, and a call that returns an error after it
\* had read its sale leaves that sale as its Read found it.
C12_NoPartialWrite ==
  [][(/\ last = NoResp
      /\ last'.op \in {"CreateSale", "UpdateSaleStatus", "SearchSale"}
      /\ last'.err # NoErr)
       => /\ m' = m
          /\ \A p \in Procs : pc'[p] # pc[p] => m'[sale[p]] = before[p]
    ]_vars

\* An UpdateSaleStatus call was refused with InvalidTransition while another
\* call, on another sale, is between its writes.
C12_Witness ==
  /\ last.op = "UpdateSaleStatus" /\ last.err = ErrInvalidTransition
  /\ \E p \in Procs : /\ pc[p] = "updatedAt" /\ sale[p] # last.id
                       /\ m[sale[p]] # before[p]

\* C13: Set with an empty ID fails with ErrEmptyID and leaves the map as it
\* was, so no map holds a sale under the empty ID and every stored sale is
\* under its own ID; Set with a non-empty ID succeeds and the map afterwards
\* is the map before except that the ID maps to the sale passed; applying
\* the same Set again gives the same map.
C13_PutContract ==
  /\ [](m[EmptyID] = NoSale /\ \A id \in Stored(m) : m[id].id = id)
  /\ [][Returns("Set")
         => /\ last'.results[1].id = EmptyID => (last'.err = ErrEmptyID /\ m' = m)
            /\ last'.results[1].id # EmptyID
                 => /\ last'.err = NoErr
                    /\ m'[last'.id] = last'.results[1]
                    /\ \A i \in IDInputs \ {last'.id} : m'[i] = m[i]
                    /\ Stored(m') = Stored(m) \cup {last'.id}
            /\ Set(m', last'.results[1]) = m'
            /\ m[last'.id] = last'.results[1] => m' = m
       ]_vars

\* A Set with the empty ID was refused while the map holds sales.
C13_Witness ==
  /\ last.op = "Set" /\ last.err = ErrEmptyID /\ last.results[1].id = EmptyID
  /\ Cardinality(Stored(m)) = 2

\* C14: Read fails with ErrNotFound exactly when the map has no entry for the
\* id, else it returns the stored sale; an entry appears or changes only by a
\* successful Set of that sale under that id and never disappears, so Read
\* fails exactly when no Set with the id has succeeded and returns the sale
\* set last; GetAll returns as many sales as there are entries, a number that
\* never falls.
C14_GetAndGrowth ==
  [][/\ Returns("Read")
          => /\ last'.err = ErrNotFound <=> last'.id \notin Stored(m)
             /\ last'.err = NoErr <=> last'.id \in Stored(m)
             /\ last'.err = NoErr => (last'.sale = last'.id /\ m[last'.sale].id = last'.id)
             /\ m' = m
     /\ Stored(m) \subseteq Stored(m')
     /\ \A id \in IDInputs :
          m'[id] # m[id]
          => /\ Returns("Set") /\ last'.err = NoErr
             /\ last'.id = id /\ m'[id] = last'.results[1]
     /\ Returns("GetAll")
          => /\ Len(last'.results) = Cardinality(Stored(m))
             /\ {last'.results[i] : i \in 1..Len(last'.results)} = {m[id] : id \in Stored(m)}
             /\ m' = m
    ]_vars

\* Read returned the sale stored under one id while the other id has no
\* entry yet.
C14_Witness ==
  /\ last.op = "Read" /\ last.err = NoErr /\ last.sale = last.id
  /\ Stored(m) = {last.id} /\ m[last.id].status = "approved"

\* C15: the storage serializes the accesses to its map: no thread is inside
\* the map assignment of Set while another thread is inside Set, Read or
\* GetAll.
C15_MapAccessSerialized ==
  \A p, q \in Procs :
    (p # q /\ pc[p] = "Set") => pc[q] \notin {"Set", "Read", "GetAll"}

\* C16: the lost update.  An UpdateSaleStatus call that has passed the pending
\* check returns success whatever another call did to the sale meanwhile, the
\* version included; two calls return success on one sale, or a call returns
\* success for a status that is not the stored one, only when calls on that
\* sale overlapped.  C16_Witness is the interleaving of the claim.
C16_LostUpdate ==
  /\ [](/\ \A id \in Stored(m) : okUpdates[id] > 1 => raced[id]
        /\ (last.op = "UpdateSaleStatus" /\ last.err = NoErr
              /\ m[last.id].status # last.status) => raced[last.id])
  /\ [][\A p \in Procs :
          (pc[p] = "set" /\ Idle(p)')
          => /\ before[p].status = "pending"
             /\ last'.op = "UpdateSaleStatus" /\ last'.err = NoErr
             /\ last'.sale = sale[p] /\ last'.status = arg[p]
       ]_vars

\* Two calls on one pending sale, one with approved and one with rejected,
\* both passed the pending test and both returned success; the status stored is the
\* other call's, and the version is only 2.
C16_Witness ==
  /\ last.op = "UpdateSaleStatus" /\ last.err = NoErr
  /\ okUpdates[last.id] = 2
  /\ last.status = "approved" /\ m[last.id].status = "rejected"
  /\ m[last.id].version = 2

\* C17: the service works on copies.  The sale stored under an id changes only
\* in the step that makes a Set of it, and between the Read and the Set of an
\* UpdateSaleStatus call the stored sale is as the Read found it, so no other
\* thread can see the new status with the old version and updatedAt.
C17_WorksOnCopies ==
  /\ [](\A p \in Procs :
          pc[p] \in {"status", "now", "updatedAt", "load", "store", "set"}
          => m[sale[p]] = before[p])
  /\ [][\A id \in Stored(m) :
          m'[id] # m[id] => \E p \in Procs : pc[p] = "set" /\ Idle(p)' /\ sale[p] = id
       ]_vars

\* C18: the sale a successful CreateSale returns and stores has createdAt
\* equal to updatedAt, whatever the clock does.
C18_CreatedAtIsUpdatedAt ==
  (last.op = "CreateSale" /\ last.err = NoErr)
  => /\ last.sale \in Stored(m)
     /\ m[last.sale].createdAt = m[last.sale].updatedAt

\* The positions of a thread between the Read and the return of a successful
\* UpdateSaleStatus.
Updating(p) == pc[p] \in {"status", "now", "updatedAt", "load", "store", "set"}

\* C19: a successful UpdateSaleStatus changes only status, updatedAt and
\* version of the sale under its id.  Each of its steps leaves every other
\* entry of the map, the set of stored ids, and id, userId, amount and
\* createdAt of its sale as they were; when it returns, those four fields are
\* as its Read found them, updatedAt is not earlier than its Read found it,
\* and the sale returned is the sale stored under the id.
C19_UpdateFrame ==
  [][\A p \in Procs :
       (Updating(p) /\ pc'[p] # pc[p])
       => /\ \A i \in IDInputs \ {sale[p]} : m'[i] = m[i]
          /\ Stored(m') = Stored(m)
          /\ m'[sale[p]].id = m[sale[p]].id
          /\ m'[sale[p]].userId = m[sale[p]].userId
          /\ m'[sale[p]].amount = m[sale[p]].amount
          /\ m'[sale[p]].createdAt = m[sale[p]].createdAt
          /\ Idle(p)'
               => /\ last'.op = "UpdateSaleStatus" /\ last'.err = NoErr
                  /\ last'.sale = sale[p] /\ last'.sale \in Stored(m')
                  /\ m'[sale[p]].id = before[p].id
                  /\ m'[sale[p]].userId = before[p].userId
                  /\ m'[sale[p]].amount = before[p].amount
                  /\ m'[sale[p]].createdAt = before[p].createdAt
                  /\ m'[sale[p]].updatedAt >= before[p].updatedAt
                  /\ m'[sale[p]].status # before[p].status
                  /\ m'[sale[p]].version > before[p].version
    ]_vars

\* An update of one of two stored sales returned success, with a later
\* updatedAt; the other sale is pending and at version 1.
C19_Witness ==
  /\ last.op = "UpdateSaleStatus" /\ last.err = NoErr
  /\ Cardinality(Stored(m)) = 2
  /\ m[last.sale].updatedAt > m[last.sale].createdAt
  /\ m[last.sale].version = 2
  /\ \E id \in Stored(m) \ {last.sale} : m[id].status = "pending" /\ m[id].version = 1

\* C20: the create-sale handler answers 400 when the amount is not greater
\* than zero or the user is not found, 500 only when the user lookup or the
\* storage failed, and 201 on success.
C20_HandlerStatus ==
  last.op = "CreateSale"
  => /\ last.err = NoErr <=> last.code = StatusCreated
     /\ (last.err = ErrAmount \/ last.err = ErrUserNotFound(last.userId))
          <=> last.code = StatusBadRequest
     /\ last.code = StatusInternalServerError
          => (last.check.err # NoErr \/ last.err = ErrSaveSale \o ErrEmptyID)

\* The sale under id is as CreateSale stored it, approved or rejected: no
\* UpdateSaleStatus call on it has returned success and none is under way.
CreatedTerminal(id) ==
  /\ id \in Stored(m) /\ Terminal(m[id])
  /\ okUpdates[id] = 0 /\ Quiet(id)

\* C21: CreateSale stores the status getRandomStatus gives, any of the
\* three.  A sale created approved or rejected has version 1 and stays as it
\* was created for ever: no step changes it, no UpdateSaleStatus call on it
\* gets past the checks, and every call on it with approved or rejected is
\* refused with InvalidTransition.
C21_CreatedTerminal ==
  /\ [](\A id \in Stored(m) : CreatedTerminal(id) => m[id].version = 1)
  /\ [][/\ \A id \in SaleIDs \ Stored(m) :
             id \in Stored(m')
             => /\ m'[id].status \in {"pending", "approved", "rejected"}
                /\ Terminal(m'[id]) => CreatedTerminal(id)'
        /\ \A id \in Stored(m) :
             CreatedTerminal(id)
             => /\ CreatedTerminal(id)'
                /\ m'[id] = m[id]
                /\ (Returns("UpdateSaleStatus") /\ last'.id = id
                      /\ last'.status \in {"approved", "rejected"})
                     => last'.err = ErrInvalidTransition
       ]_vars

\* One sale was created approved and the other rejected; a call to approve
\* the rejected one was refused with InvalidTransition.
C21_Witness ==
  /\ last.op = "UpdateSaleStatus" /\ last.err = ErrInvalidTransition
  /\ last.status = "approved"
  /\ CreatedTerminal(last.id) /\ m[last.id].status = "rejected"
  /\ \E id \in Stored(m) : CreatedTerminal(id) /\ m[id].status = "approved"

\* C22 as stated: when a successful UpdateSaleStatus returns, updatedAt of
\* its sale is strictly later than its Read found it, and every stored sale
\* has createdAt <= updatedAt.
C22_StrictlyLater ==
  /\ [](\A id \in Stored(m) : m[id].createdAt <= m[id].updatedAt)
  /\ [][\A p \in Procs :
          (pc[p] = "set" /\ Idle(p)' /\ last'.err = NoErr)
          => m'[sale[p]].updatedAt > before[p].updatedAt
       ]_vars

\* C22, amended: UpdateSaleStatus writes into updatedAt the reading of the
\* clock it took, which is not earlier than the updatedAt its Read found and
\* not earlier than createdAt, and is strictly later exactly when the clock
\* had advanced past that updatedAt by the time it was read; when the call
\* returns, updatedAt is not earlier than its Read found it; every stored
\* sale has createdAt <= updatedAt <= the clock.
C22_NotEarlier ==
  /\ [](\A id \in Stored(m) :
          m[id].createdAt <= m[id].updatedAt /\ m[id].updatedAt <= now)
  /\ [][\A p \in Procs :
          /\ (pc[p] = "now" /\ pc'[p] = "updatedAt")
               => /\ tm'[p] = now
                  /\ tm'[p] >= before[p].updatedAt
                  /\ tm'[p] > before[p].updatedAt <=> now > before[p].updatedAt
          /\ (pc[p] = "updatedAt" /\ pc'[p] = "load")
               => /\ m'[sale[p]].updatedAt = tm[p]
                  /\ tm[p] >= before[p].updatedAt
                  /\ tm[p] >= m[sale[p]].createdAt
          /\ (pc[p] = "set" /\ Idle(p)' /\ last'.err = NoErr)
               => m'[sale[p]].updatedAt >= before[p].updatedAt
       ]_vars

\* An update returned success with updatedAt still equal to createdAt: the
\* clock had not advanced since the sale was created; the update of the other
\* sale made its updatedAt later.
C22_Witness ==
  /\ last.op = "UpdateSaleStatus" /\ last.err = NoErr
  /\ m[last.sale].version = 2 /\ ~raced[last.sale]
  /\ m[last.sale].updatedAt = m[last.sale].createdAt
  /\ \E id \in Stored(m) : m[id].createdAt < m[id].updatedAt /\ m[id].version = 2

\* C23 as stated: in every reachable state, interleaved updates included, at
\* most one UpdateSaleStatus call on an id has returned success, the version
\* is 1 or 2, version 2 implies approved or rejected, pending implies
\* version 1, and the version never decreases.
C23_AtMostOneSuccess ==
  /\ [](\A id \in Stored(m) :
          /\ okUpdates[id] <= 1
          /\ m[id].version \in {1, 2}
          /\ m[id].version = 2 => Terminal(m[id])
          /\ m[id].status = "pending" => m[id].version = 1)
  /\ [][\A id \in Stored(m) : m'[id].version >= m[id].version]_vars

\* C23, amended: in every reachable state the version is at least 1, a
\* pending sale has version 1 and no successful update, and a version above
\* 1 implies approved or rejected; as long as no two UpdateSaleStatus calls
\* on the id have overlapped, at most one call on it has returned success,
\* the version is 1 or 2 and it never decreases.
C23_Lifecycle ==
  /\ [](\A id \in Stored(m) :
          /\ m[id].version >= 1
          /\ m[id].status = "pending" => (m[id].version = 1 /\ okUpdates[id] = 0)
          /\ m[id].version > 1 => Terminal(m[id])
          /\ ~raced[id] => (okUpdates[id] <= 1 /\ m[id].version \in {1, 2}))
  /\ [][\A id \in Stored(m) : ~raced[id] => m'[id].version >= m[id].version]_vars

\* A sale was updated once, with nothing overlapping, and a second call on it
\* was refused; the other sale is pending at version 1.
C23_Witness ==
  /\ last.op = "UpdateSaleStatus" /\ last.err = ErrInvalidTransition
  /\ last.id \in Stored(m) /\ ~raced[last.id] /\ okUpdates[last.id] = 1
  /\ m[last.id].version = 2 /\ Terminal(m[last.id])
  /\ \E id \in Stored(m) : m[id].status = "pending" /\ m[id].version = 1

\* C24: a successful CreateSale(userId, amount) stores exactly one new sale,
\* under a non-empty id that was not stored before; the sale has that id, the
\* given userId and amount (> 0) and version 1; it is the sale returned and
\* the one a Read of the id gives afterwards; every entry stored before is
\* unchanged and the number of entries grows by exactly 1.
C24_CreateFrame ==
  [][(Returns("CreateSale") /\ last'.err = NoErr)
       => /\ last'.sale # EmptyID
          /\ last'.sale \notin Stored(m)
          /\ Stored(m') = Stored(m) \cup {last'.sale}
          /\ Cardinality(Stored(m')) = Cardinality(Stored(m)) + 1
          /\ \A i \in IDInputs \ {last'.sale} : m'[i] = m[i]
          /\ m'[last'.sale].id = last'.sale
          /\ m'[last'.sale].userId = last'.userId
          /\ m'[last'.sale].amount = last'.amount /\ last'.amount > 0
          /\ m'[last'.sale].version = 1
          /\ Read(m', last'.sale) = [err |-> NoErr, sale |-> last'.sale]
    ]_vars

\* A second sale was created, for another user and with another amount than
\* the sale stored before.
C24_Witness ==
  /\ last.op = "CreateSale" /\ last.err = NoErr /\ last.sale = 2
  /\ Stored(m) = {1, 2}
  /\ m[1].userId # m[2].userId /\ m[1].amount # m[2].amount
====
